---- MODULE Spec2Model ----
(***************************************************************************)
(* Week10.py: the cloud cost and tagging dashboard.  One run of the script *)
(* is a straight line: load cloudmart_multi_account.csv (with the          *)
(* single-column repair), normalise the headers, compute the tagging       *)
(* metrics, add TagCompletenessScore, open the remediation editor on the   *)
(* untagged rows, optionally build the remediated export, recompute the    *)
(* flags and merge.                                                        *)
(*                                                                         *)
(* Spec      one run of the script over a parsed table (lines 8-171)       *)
(* SpecIdem  the remediation recompute applied twice (lines 150-170)       *)
(* SpecLoad  the load at the level of characters (lines 10-41)             *)
(***************************************************************************)
EXTENDS Integers, Sequences, FiniteSets, TLC

VARIABLES
    \* one run of the script
    file,                           \* "present" or "missing": cloudmart_multi_account.csv
    pc,                             \* where the run is
    diag,                           \* what the run reported when it ended early
    ran,                            \* the steps after the load that have run
    src,                            \* the table the file holds
    df,
    tagged_counts, percent_untagged,
    cost_by_tag, total_cost, percent_untagged_cost,
    dept_most_untagged_cost, project_most_cost,
    edited_df, edits,
    combined_df,                    \* the table behind the remediated export
    updated_df, updated_cost_by_tag, updated_percent_untagged_cost,
    \* the remediation applied twice
    ipc, T, first, second,
    \* the load, character by character
    lpc, content, which, text, parsed, loaded

\* ------------------------------------------------------------------ bounds
\* rows of a table that varies the flags; rows of any other table
MaxFlagRows == 3
MaxRows == 2
\* cells changed or rows deleted in the editor
MaxEdits == 1

\* --------------------------------------------------------------- constants
\* a missing value (NaN / None)
NULL == "<null>"
\* a name or a number the run has not assigned yet
UNSET == "<unset>"
NoNumber == [kind |-> "unset", value |-> 0]
\* what a float division by zero leaves behind
NaN == [kind |-> "nan", value |-> 0]
Inf == [kind |-> "inf", value |-> 0]
Number(v) == [kind |-> "number", value |-> v]

tag_fields == <<"Department", "Project", "Owner", "CostCenter">>

\* ---------------------------------------------------------------- helpers
Range(s) == {s[i] : i \in DOMAIN s}

RECURSIVE SumCost(_)
\* Series.sum() of MonthlyCostUSD
SumCost(t) ==
    IF t = <<>> THEN 0 ELSE Head(t).MonthlyCostUSD + SumCost(Tail(t))

IsYes(r) == r.Tagged = "Yes"
IsNo(r) == r.Tagged = "No"

\* df[df['Tagged'] == 'Yes'] and df[df['Tagged'] == 'No']
TaggedRows(t) == SelectSeq(t, IsYes)
UntaggedRows(t) == SelectSeq(t, IsNo)

\* the keys a groupby / value_counts keeps: missing keys are dropped (dropna)
GroupKeys(t, col) == {t[i][col] : i \in DOMAIN t} \ {NULL}

\* variant: value_counts(dropna=False), the missing flag counted under its own key
ValueCountsKeepNull(t, col) ==
    [k \in {t[i][col] : i \in DOMAIN t} |->
        Cardinality({i \in DOMAIN t : t[i][col] = k})]

\* df[col].value_counts()
ValueCounts(t, col) ==
    [k \in GroupKeys(t, col) |-> Cardinality({i \in DOMAIN t : t[i][col] = k})]

\* variant: .count() in place of .sum()
CostByCount(t, col) ==
    [k \in GroupKeys(t, col) |-> Cardinality({i \in DOMAIN t : t[i][col] = k})]

\* df.groupby(col)['MonthlyCostUSD'].sum()
CostBy(t, col) ==
    [k \in GroupKeys(t, col) |->
        LET HasKey(r) == r[col] = k IN SumCost(SelectSeq(t, HasKey))]

\* Series.get(key, 0)
Get(series, key) == IF key \in DOMAIN series THEN series[key] ELSE 0

\* (a / b) * 100 on numpy scalars, kept to two decimals (hundredths of a percent)
Percent(a, b) ==
    IF b = 0 THEN (IF a = 0 THEN NaN ELSE Inf) ELSE Number((a * 10000) \div b)

\* groupby sorts its keys; idxmax returns the first key holding the maximum
KeyOrder == <<"CC1", "Eng", "Ops", "P1", "P2", "alice">>
Pos(k) == CHOOSE i \in DOMAIN KeyOrder : KeyOrder[i] = k

\* variant: idxmin in place of idxmax
IdxMin(series) ==
    CHOOSE k \in DOMAIN series :
        /\ \A j \in DOMAIN series : series[k] <= series[j]
        /\ \A j \in DOMAIN series : series[j] = series[k] => Pos(k) <= Pos(j)

IdxMax(series) ==
    CHOOSE k \in DOMAIN series :
        /\ \A j \in DOMAIN series : series[j] <= series[k]
        /\ \A j \in DOMAIN series : series[j] = series[k] => Pos(k) <= Pos(j)

\* series.idxmax() if not series.empty else "N/A"
ArgMaxOrNA(series) == IF DOMAIN series = {} THEN "N/A" ELSE IdxMax(series)

\* df[tag_fields].notnull().sum(axis=1) for one row
NotNullCount(r) == Cardinality({i \in DOMAIN tag_fields : r[tag_fields[i]] # NULL})

\* df['TagCompletenessScore'] = ...
AddScore(r) == r @@ ("TagCompletenessScore" :> NotNullCount(r))
Enriched(t) == [i \in DOMAIN t |-> AddScore(t[i])]

\* variant: .any(axis=1) in place of .all(axis=1)
DerivedFlagAny(r) ==
    IF \E i \in DOMAIN tag_fields : r[tag_fields[i]] # NULL THEN "Yes" ELSE "No"

\* edited_df[tag_fields].notnull().all(axis=1).map({True: 'Yes', False: 'No'})
DerivedFlag(r) ==
    IF \A i \in DOMAIN tag_fields : r[tag_fields[i]] # NULL THEN "Yes" ELSE "No"

\* edited_df['Tagged'] = ...
Reflag(e) == [i \in DOMAIN e |-> [e[i] EXCEPT !.Tagged = DerivedFlag(e[i])]]

\* variant: pd.concat([df, edited_df]), the untagged rows kept twice
ConcatAll(t, e) == t \o e

\* pd.concat([df[df['Tagged'] == 'Yes'], edited_df], ignore_index=True)
Concat(t, e) == TaggedRows(t) \o e

\* ----------------------------------------------------------------- inputs
Flags == {"Yes", "No", "Maybe", NULL}

Costs == {0, 1}

Complete == [Department |-> "Eng", Project |-> "P1", Owner |-> "alice",
             CostCenter |-> "CC1"]

\* rows that vary the flag and the cost: all four tag fields present
FlagRows ==
    {Complete @@ [Tagged |-> g, MonthlyCostUSD |-> c] : g \in Flags, c \in Costs}

\* rows that vary the department of tagged and untagged resources
DeptRows ==
    {[Complete EXCEPT !.Department = d] @@ [Tagged |-> g, MonthlyCostUSD |-> c] :
        d \in {NULL, "Eng", "Ops"}, g \in {"Yes", "No"}, c \in Costs}

\* rows that vary the project
ProjRows ==
    {[Complete EXCEPT !.Project = p] @@ [Tagged |-> "Yes", MonthlyCostUSD |-> c] :
        p \in {NULL, "P1", "P2"}, c \in Costs}

\* rows that vary which tag fields are present: none, one or all four missing
Missing(r) == {i \in DOMAIN tag_fields : r[tag_fields[i]] = NULL}
TagRows ==
    {r @@ [Tagged |-> g, MonthlyCostUSD |-> 1] :
        r \in {q \in [Department : {NULL, "Eng"}, Project : {NULL, "P1"},
                      Owner : {NULL, "alice"}, CostCenter : {NULL, "CC1"}] :
                  Cardinality(Missing(q)) \in {0, 1, Len(tag_fields)}},
        g \in {"Yes", "No"}}

\* the ResourceID of a row is its line number in the file
WithIds(t) == [i \in DOMAIN t |-> t[i] @@ ("ResourceID" :> i)]

TablesOf(rows, max) == UNION {[1..n -> rows] : n \in 0..max}

InputTables ==
    {WithIds(t) : t \in TablesOf(FlagRows, MaxFlagRows) \cup TablesOf(DeptRows, MaxRows)
                        \cup TablesOf(ProjRows, MaxRows) \cup TablesOf(TagRows, MaxRows)}

\* the values the editor can put into a tag field
FieldValues(f) ==
    CASE f = "Department" -> {NULL, "Eng"}
      [] f = "Project" -> {NULL, "P1"}
      [] f = "Owner" -> {NULL, "alice"}
      [] f = "CostCenter" -> {NULL, "CC1"}

\* ------------------------------------------------------- one run: state
loadVars == <<file, pc, diag, ran, src, df>>
metricVars ==
    <<tagged_counts, percent_untagged, cost_by_tag, total_cost,
      percent_untagged_cost, dept_most_untagged_cost, project_most_cost>>
remedVars ==
    <<edited_df, edits, combined_df, updated_df, updated_cost_by_tag,
      updated_percent_untagged_cost>>
runVars == <<loadVars, metricVars, remedVars>>
idemVars == <<ipc, T, first, second>>
charVars == <<lpc, content, which, text, parsed, loaded>>
vars == <<runVars, idemVars, charVars>>

RunIdle ==
    /\ file = "present" /\ pc = "idle" /\ diag = UNSET /\ ran = {}
    /\ src = <<>> /\ df = <<>>
    /\ tagged_counts = <<>> /\ percent_untagged = NoNumber
    /\ cost_by_tag = <<>> /\ total_cost = 0 /\ percent_untagged_cost = NoNumber
    /\ dept_most_untagged_cost = UNSET /\ project_most_cost = UNSET
    /\ edited_df = <<>> /\ edits = 0 /\ combined_df = <<>>
    /\ updated_df = <<>> /\ updated_cost_by_tag = <<>>
    /\ updated_percent_untagged_cost = NoNumber
IdemIdle == ipc = "idle" /\ T = <<>> /\ first = <<>> /\ second = <<>>
CharIdle ==
    /\ lpc = "idle" /\ content = <<>> /\ which = "none" /\ text = <<>>
    /\ parsed = <<>> /\ loaded = <<>>

\* the state when the script starts: nothing assigned, the file there or not
Init ==
    /\ file \in {"present", "missing"}
    /\ src \in InputTables
    /\ pc = "load" /\ diag = UNSET /\ ran = {} /\ df = <<>>
    /\ tagged_counts = <<>> /\ percent_untagged = NoNumber
    /\ cost_by_tag = <<>> /\ total_cost = 0 /\ percent_untagged_cost = NoNumber
    /\ dept_most_untagged_cost = UNSET /\ project_most_cost = UNSET
    /\ edited_df = <<>> /\ edits = 0 /\ combined_df = <<>>
    /\ updated_df = <<>> /\ updated_cost_by_tag = <<>>
    /\ updated_percent_untagged_cost = NoNumber
    /\ IdemIdle /\ CharIdle

\* ----------------------------------------------------- one run: the load
\* variant: st.error(...) without st.stop()
NotFoundWithoutStop ==
    /\ pc' = "normalize" /\ diag' = "NotFound"
    /\ UNCHANGED <<file, ran, src, df>>

\* except FileNotFoundError: st.error(...); st.stop()
NotFound ==
    /\ pc' = "stopped" /\ diag' = "NotFound"
    /\ UNCHANGED <<file, ran, src, df>>

\* the file is deleted while the load is still going to read it
RemoveFile ==
    /\ pc \in {"load", "repair"} /\ file = "present"
    /\ file' = "missing"
    /\ UNCHANGED <<pc, diag, ran, src, df, metricVars, remedVars>>

\* line 10: pd.read_csv; line 13: one column sends the run to the repair
PrimaryRead ==
    /\ pc = "load"
    /\ IF file = "missing" THEN NotFound
       ELSE \E one_column \in BOOLEAN :
                IF one_column
                THEN /\ pc' = "repair"
                     /\ UNCHANGED <<file, diag, ran, src, df>>
                ELSE /\ pc' = "normalize" /\ df' = src
                     /\ UNCHANGED <<file, diag, ran, src>>
    /\ UNCHANGED <<metricVars, remedVars>>

\* lines 17-34: open the file again, unwrap the lines, parse them
RepairRead ==
    /\ pc = "repair"
    /\ IF file = "missing" THEN NotFound
       ELSE /\ pc' = "normalize" /\ df' = src
            /\ UNCHANGED <<file, diag, ran, src>>
    /\ UNCHANGED <<metricVars, remedVars>>

\* line 41: df.columns = df.columns.str.strip().str.replace('"', '')
NormalizeColumns ==
    /\ pc = "normalize"
    /\ pc' = "counts" /\ ran' = ran \cup {"normalize"}
    /\ UNCHANGED <<file, diag, src, df, metricVars, remedVars>>

\* -------------------------------------------------- one run: the metrics
\* lines 59-64: tagged_counts and the percentage of untagged resources;
\* tagged_counts.get('No', 0) / len(df) raises ZeroDivisionError on no rows
CountByTagStatus ==
    /\ pc = "counts"
    /\ ran' = ran \cup {"counts"}
    /\ tagged_counts' = ValueCounts(df, "Tagged")
    /\ IF Len(df) = 0
       THEN /\ pc' = "crashed" /\ diag' = "ZeroDivisionError"
            /\ UNCHANGED percent_untagged
       ELSE /\ pc' = "costs"
            /\ percent_untagged' = Percent(Get(tagged_counts', "No"), Len(df))
            /\ UNCHANGED diag
    /\ UNCHANGED <<file, src, df, cost_by_tag, total_cost, percent_untagged_cost,
                   dept_most_untagged_cost, project_most_cost, remedVars>>

\* lines 67-74: cost by tagging status and the percentage of untagged cost
CostByTagStatus ==
    /\ pc = "costs"
    /\ pc' = "argmax" /\ ran' = ran \cup {"costs"}
    /\ cost_by_tag' = CostBy(df, "Tagged")
    /\ total_cost' = SumCost(df)
    /\ percent_untagged_cost' = Percent(Get(cost_by_tag', "No"), total_cost')
    /\ UNCHANGED <<file, diag, src, df, tagged_counts, percent_untagged,
                   dept_most_untagged_cost, project_most_cost, remedVars>>

\* lines 77-84: department with most untagged cost, project with most cost
ArgMaxes ==
    /\ pc = "argmax"
    /\ pc' = "enrich" /\ ran' = ran \cup {"argmax"}
    /\ dept_most_untagged_cost' = ArgMaxOrNA(CostBy(UntaggedRows(df), "Department"))
    /\ project_most_cost' = ArgMaxOrNA(CostBy(df, "Project"))
    /\ UNCHANGED <<file, diag, src, df, tagged_counts, percent_untagged,
                   cost_by_tag, total_cost, percent_untagged_cost, remedVars>>

\* lines 92-93: df['TagCompletenessScore'] = ...
Enrich ==
    /\ pc = "enrich"
    /\ pc' = "editor" /\ ran' = ran \cup {"enrich"}
    /\ df' = Enriched(df)
    /\ UNCHANGED <<file, diag, src, metricVars, remedVars>>

\* ---------------------------------------------- one run: the remediation
\* lines 150-153 and 172-173: the editor opens on the untagged rows, if any
OpenEditor ==
    /\ pc = "editor"
    /\ ran' = ran \cup {"editor"}
    /\ IF UntaggedRows(df) = <<>>
       THEN pc' = "done" /\ UNCHANGED edited_df
       ELSE pc' = "editing" /\ edited_df' = UntaggedRows(df)
    /\ UNCHANGED <<file, diag, src, df, metricVars, edits, combined_df,
                   updated_df, updated_cost_by_tag, updated_percent_untagged_cost>>

\* line 153: the user sets or clears a tag field of a row in the editor
EditCell ==
    /\ pc = "editing" /\ edits < MaxEdits
    /\ \E i \in DOMAIN edited_df : \E j \in DOMAIN tag_fields :
         \E v \in FieldValues(tag_fields[j]) \ {edited_df[i][tag_fields[j]]} :
            edited_df' = [edited_df EXCEPT ![i][tag_fields[j]] = v]
    /\ edits' = edits + 1
    /\ UNCHANGED <<loadVars, metricVars, combined_df, updated_df,
                   updated_cost_by_tag, updated_percent_untagged_cost>>

\* line 153, num_rows="dynamic": the user deletes a row in the editor
DeleteRow ==
    /\ pc = "editing" /\ edits < MaxEdits
    /\ \E i \in DOMAIN edited_df :
         edited_df' = SubSeq(edited_df, 1, i - 1)
                          \o SubSeq(edited_df, i + 1, Len(edited_df))
    /\ edits' = edits + 1
    /\ UNCHANGED <<loadVars, metricVars, combined_df, updated_df,
                   updated_cost_by_tag, updated_percent_untagged_cost>>

\* lines 155-159: "Download Remediated Dataset" pressed; the export is built
\* from edited_df as the editor returned it
BuildExport ==
    /\ pc = "editing"
    /\ pc' = "recompute" /\ ran' = ran \cup {"export"}
    /\ combined_df' = Concat(df, edited_df)
    /\ UNCHANGED <<file, diag, src, df, metricVars, edited_df, edits,
                   updated_df, updated_cost_by_tag, updated_percent_untagged_cost>>

\* line 155: the button is not pressed in this run
SkipExport ==
    /\ pc = "editing"
    /\ pc' = "recompute"
    /\ UNCHANGED <<file, diag, ran, src, df, metricVars, remedVars>>

\* lines 161-171: the flags of the edited rows, the merge, the new summary
Recompute ==
    /\ pc = "recompute"
    /\ pc' = "done" /\ ran' = ran \cup {"recompute"}
    /\ edited_df' = Reflag(edited_df)
    /\ updated_df' = Concat(df, edited_df')
    /\ updated_cost_by_tag' = CostBy(updated_df', "Tagged")
    /\ updated_percent_untagged_cost' =
           Percent(Get(updated_cost_by_tag', "No"), SumCost(updated_df'))
    /\ UNCHANGED <<file, diag, src, df, metricVars, edits, combined_df>>

Next ==
    \/ (RemoveFile /\ UNCHANGED <<idemVars, charVars>>)
    \/ (PrimaryRead /\ UNCHANGED <<idemVars, charVars>>)
    \/ (RepairRead /\ UNCHANGED <<idemVars, charVars>>)
    \/ (NormalizeColumns /\ UNCHANGED <<idemVars, charVars>>)
    \/ (CountByTagStatus /\ UNCHANGED <<idemVars, charVars>>)
    \/ (CostByTagStatus /\ UNCHANGED <<idemVars, charVars>>)
    \/ (ArgMaxes /\ UNCHANGED <<idemVars, charVars>>)
    \/ (Enrich /\ UNCHANGED <<idemVars, charVars>>)
    \/ (OpenEditor /\ UNCHANGED <<idemVars, charVars>>)
    \/ (EditCell /\ UNCHANGED <<idemVars, charVars>>)
    \/ (DeleteRow /\ UNCHANGED <<idemVars, charVars>>)
    \/ (BuildExport /\ UNCHANGED <<idemVars, charVars>>)
    \/ (SkipExport /\ UNCHANGED <<idemVars, charVars>>)
    \/ (Recompute /\ UNCHANGED <<idemVars, charVars>>)

Spec == Init /\ [][Next]_vars

\* ------------------------------------------ the remediation applied twice
\* lines 150-170 with the editor returning the untagged rows as they are:
\* the branch runs only when there is an untagged row (line 152)
Remediation(t) ==
    LET untagged_df == UntaggedRows(t) IN
    IF untagged_df = <<>>
    THEN [ran |-> FALSE, updated_df |-> <<>>, updated_cost_by_tag |-> <<>>,
          updated_percent_untagged_cost |-> NoNumber]
    ELSE LET e == Reflag(untagged_df)
             u == Concat(t, e)
             c == CostBy(u, "Tagged")
         IN [ran |-> TRUE, updated_df |-> u, updated_cost_by_tag |-> c,
             updated_percent_untagged_cost |-> Percent(Get(c, "No"), SumCost(u))]

NotRun == Remediation(<<>>)

InitIdem ==
    /\ RunIdle /\ CharIdle
    /\ T \in {Enriched(t) : t \in InputTables}
    /\ ipc = "start" /\ first = NotRun /\ second = NotRun

\* the remediation over the table the script holds after line 93
ApplyOnce ==
    /\ ipc = "start"
    /\ first' = Remediation(T)
    /\ ipc' = IF first'.ran THEN "once" ELSE "skipped"
    /\ UNCHANGED <<T, second>>

\* the remediation over the merged table
ApplyTwice ==
    /\ ipc = "once"
    /\ second' = Remediation(first.updated_df)
    /\ ipc' = "twice"
    /\ UNCHANGED <<T, first>>

NextIdem ==
    \/ (ApplyOnce /\ UNCHANGED <<runVars, charVars>>)
    \/ (ApplyTwice /\ UNCHANGED <<runVars, charVars>>)

SpecIdem == InitIdem /\ [][NextIdem]_vars

\* --------------------------------------------- the load, by characters
MaxLineLen == 4
MaxDataLines == 2

DQ == "\""
SP == " "
NL == "\n"
COMMA == ","

\* str.strip(): leading and trailing whitespace removed
RECURSIVE LStrip(_)
LStrip(w) == IF w # <<>> /\ Head(w) \in {SP, NL} THEN LStrip(Tail(w)) ELSE w
RECURSIVE RStrip(_)
RStrip(w) ==
    IF w # <<>> /\ w[Len(w)] \in {SP, NL} THEN RStrip(SubSeq(w, 1, Len(w) - 1)) ELSE w
Strip(w) == RStrip(LStrip(w))

\* str.replace('"', '')
NotQuote(c) == c # DQ
RemoveQuotes(w) == SelectSeq(w, NotQuote)

\* f.readlines(): the text cut after each newline
RECURSIVE ReadLines(_)
ReadLines(t) ==
    IF t = <<>> THEN <<>>
    ELSE IF \E i \in DOMAIN t : t[i] = NL
         THEN LET n == CHOOSE i \in DOMAIN t :
                           t[i] = NL /\ \A j \in 1..(i - 1) : t[j] # NL
              IN <<SubSeq(t, 1, n)>> \o ReadLines(SubSeq(t, n + 1, Len(t)))
         ELSE <<t>>

\* '\n'.join(lines)
RECURSIVE Join(_)
Join(ls) ==
    IF ls = <<>> THEN <<>>
    ELSE IF Len(ls) = 1 THEN ls[1]
         ELSE ls[1] \o <<NL>> \o Join(Tail(ls))

\* lines 23-26: strip the line, then drop one quote at each end when it has both
ProcessLine(line) ==
    LET l == Strip(line) IN
    IF l # <<>> /\ Head(l) = DQ /\ l[Len(l)] = DQ
    THEN SubSeq(l, 2, Len(l) - 1)
    ELSE l

\* lines 17-31: csv_string
Repaired(t) ==
    LET lines == ReadLines(t) IN Join([i \in DOMAIN lines |-> ProcessLine(lines[i])])

\* the tokenizer behind pd.read_csv(sep=',', quotechar='"'), one character a
\* step; z is its state: position, automaton state, start of the line being
\* skipped as blank, field and row under construction, rows finished
EndField(z) == [z EXCEPT !.row = Append(z.row, z.field), !.field = <<>>]
EndLine(z) ==
    [z EXCEPT !.rows = Append(z.rows, z.row), !.row = <<>>, !.st = "START_RECORD"]
Push(z, c) == [z EXCEPT !.field = Append(z.field, c)]
To(z, st) == [z EXCEPT !.st = st]
Adv(z) == [z EXCEPT !.i = z.i + 1]

StartField(c, skipinitialspace, z) ==
    CASE c = NL -> Adv(EndLine(EndField(z)))
      [] c = DQ -> Adv(To(z, "IN_QUOTED_FIELD"))
      [] c = SP /\ skipinitialspace -> Adv(To(z, "START_FIELD"))
      [] c = COMMA -> Adv(To(EndField(z), "START_FIELD"))
      [] OTHER -> Adv(To(Push(z, c), "IN_FIELD"))

TokenStep(c, skipinitialspace, z) ==
    CASE z.st = "START_RECORD" ->
            (CASE c = NL -> Adv(z)
               [] c = SP -> Adv([To(z, "WHITESPACE_LINE") EXCEPT !.mark = z.i])
               [] OTHER -> StartField(c, skipinitialspace, z))
      [] z.st = "WHITESPACE_LINE" ->
            (CASE c = NL -> Adv(To(z, "START_RECORD"))
               [] c = SP -> Adv(z)
               [] OTHER -> [To(z, "START_FIELD") EXCEPT !.i = z.mark])
      [] z.st = "START_FIELD" -> StartField(c, skipinitialspace, z)
      [] z.st = "IN_FIELD" ->
            (CASE c = NL -> Adv(EndLine(EndField(z)))
               [] c = COMMA -> Adv(To(EndField(z), "START_FIELD"))
               [] OTHER -> Adv(Push(z, c)))
      [] z.st = "IN_QUOTED_FIELD" ->
            (CASE c = DQ -> Adv(To(z, "QUOTE_IN_QUOTED_FIELD"))
               [] OTHER -> Adv(Push(z, c)))
      [] z.st = "QUOTE_IN_QUOTED_FIELD" ->
            (CASE c = DQ -> Adv(To(Push(z, c), "IN_QUOTED_FIELD"))
               [] c = COMMA -> Adv(To(EndField(z), "START_FIELD"))
               [] c = NL -> Adv(EndLine(EndField(z)))
               [] OTHER -> Adv(To(Push(z, c), "IN_FIELD")))

\* the end of the text closes the open field and line; inside a quoted field
\* it is a ParserError
AtEof(z) ==
    CASE z.st \in {"START_RECORD", "WHITESPACE_LINE"} -> [ok |-> TRUE, rows |-> z.rows]
      [] z.st = "IN_QUOTED_FIELD" -> [ok |-> FALSE, rows |-> <<>>]
      [] OTHER -> [ok |-> TRUE, rows |-> EndLine(EndField(z)).rows]

RECURSIVE Tokenize(_, _, _)
Tokenize(t, skipinitialspace, z) ==
    IF z.i > Len(t) THEN AtEof(z)
    ELSE Tokenize(t, skipinitialspace, TokenStep(t[z.i], skipinitialspace, z))

\* an empty field is a missing value
NullCell == <<NULL>>
Cell(f) == IF f = <<>> THEN NullCell ELSE f

NoFrame == [ok |-> TRUE, columns |-> <<>>, data |-> <<>>]

\* pd.read_csv: the first row names the columns, the others are the data
\* (every line of the inputs has as many fields as the header)
ReadCsv(t, skipinitialspace) ==
    LET r == Tokenize(t, skipinitialspace,
                      [i |-> 1, st |-> "START_RECORD", mark |-> 1,
                       field |-> <<>>, row |-> <<>>, rows |-> <<>>])
    IN IF ~r.ok \/ r.rows = <<>> THEN [NoFrame EXCEPT !.ok = FALSE]
       ELSE [ok |-> TRUE, columns |-> r.rows[1],
             data |-> [n \in 1..(Len(r.rows) - 1) |->
                          [j \in DOMAIN r.rows[n + 1] |-> Cell(r.rows[n + 1][j])]]]

\* line 41: df.columns.str.strip().str.replace('"', '')
NormalizedColumns(cols) == [j \in DOMAIN cols |-> RemoveQuotes(Strip(cols[j]))]

\* the inputs: a header of two names and data lines of two fields, comma
\* separated, a space possible on either side of a field
HeaderLines == {<<"a", COMMA, "b">>, <<"a", COMMA, SP, "b">>}
LineChars == {"x", SP, COMMA}
DataLines ==
    {l \in UNION {[1..n -> LineChars] : n \in 1..MaxLineLen} :
        Cardinality({i \in DOMAIN l : l[i] = COMMA}) = 1}
Contents ==
    {<<h>> \o d : h \in HeaderLines,
                  d \in UNION {[1..n -> DataLines] : n \in 1..MaxDataLines}}

\* the file with every line wrapped in one pair of double quotes, and the
\* well-formed file with the same content
RECURSIVE FileOf(_)
FileOf(ls) == IF ls = <<>> THEN <<>> ELSE Head(ls) \o <<NL>> \o FileOf(Tail(ls))
WrappedFile(c) == FileOf([i \in DOMAIN c |-> <<DQ>> \o c[i] \o <<DQ>>])
PlainFile(c) == FileOf(c)

InitLoad ==
    /\ RunIdle /\ IdemIdle
    /\ content \in Contents
    /\ which = "wrapped" /\ text = WrappedFile(content)
    /\ lpc = "read" /\ parsed = NoFrame /\ loaded = NoFrame

\* line 10 and line 13: the primary parse; one column sends it to the repair
ParsePrimary ==
    /\ lpc = "read"
    /\ parsed' = ReadCsv(text, TRUE)
    /\ lpc' = IF ~parsed'.ok THEN "crashed"
              ELSE IF Len(parsed'.columns) = 1 THEN "repair" ELSE "normalize"
    /\ UNCHANGED <<content, which, text, loaded>>

\* lines 17-34: the lines unwrapped and parsed again
ParseRepaired ==
    /\ lpc = "repair"
    /\ parsed' = ReadCsv(Repaired(text), FALSE)
    /\ lpc' = IF parsed'.ok THEN "normalize" ELSE "crashed"
    /\ UNCHANGED <<content, which, text, loaded>>

\* line 41
NormalizeHeaders ==
    /\ lpc = "normalize"
    /\ parsed' = [parsed EXCEPT !.columns = NormalizedColumns(parsed.columns)]
    /\ lpc' = "loaded"
    /\ UNCHANGED <<content, which, text, loaded>>

\* the table of the wrapped file is kept, and the script is run again on the
\* well-formed file
RunOnPlainFile ==
    /\ lpc = "loaded" /\ which = "wrapped"
    /\ loaded' = parsed /\ parsed' = NoFrame
    /\ which' = "plain" /\ text' = PlainFile(content)
    /\ lpc' = "read"
    /\ UNCHANGED content

NextLoad ==
    \/ (ParsePrimary /\ UNCHANGED <<runVars, idemVars>>)
    \/ (ParseRepaired /\ UNCHANGED <<runVars, idemVars>>)
    \/ (NormalizeHeaders /\ UNCHANGED <<runVars, idemVars>>)
    \/ (RunOnPlainFile /\ UNCHANGED <<runVars, idemVars>>)

SpecLoad == InitLoad /\ [][NextLoad]_vars

\* ========================================================== the properties
RECURSIVE SumValues(_)
SumValues(f) ==
    IF DOMAIN f = {} THEN 0
    ELSE LET k == CHOOSE x \in DOMAIN f : TRUE
         IN f[k] + SumValues([x \in DOMAIN f \ {k} |-> f[x]])

Count(t, r) == Cardinality({i \in DOMAIN t : t[i] = r})
SameRows(t, u) ==
    /\ Len(t) = Len(u)
    /\ \A r \in Range(t) \cup Range(u) : Count(t, r) = Count(u, r)

RunUnassigned ==
    /\ ran = {} /\ df = <<>>
    /\ tagged_counts = <<>> /\ percent_untagged = NoNumber
    /\ cost_by_tag = <<>> /\ total_cost = 0 /\ percent_untagged_cost = NoNumber
    /\ dept_most_untagged_cost = UNSET /\ project_most_cost = UNSET
    /\ edited_df = <<>> /\ edits = 0 /\ combined_df = <<>>
    /\ updated_df = <<>> /\ updated_cost_by_tag = <<>>
    /\ updated_percent_untagged_cost = NoNumber

C2_Idempotent == (ipc = "twice" /\ second.ran) => second = first

\* C2 amended: a second application that runs keeps every record with its flag
\* and keeps the aggregates; the rows come out tagged first, then untagged.
\* It does not run when the merged table has no untagged row left.
C2_IdempotentUpToOrder ==
    ipc = "twice" =>
        IF second.ran
        THEN /\ SameRows(second.updated_df, first.updated_df)
             /\ second.updated_df =
                    TaggedRows(first.updated_df) \o UntaggedRows(first.updated_df)
             /\ second.updated_cost_by_tag = first.updated_cost_by_tag
             /\ second.updated_percent_untagged_cost =
                    first.updated_percent_untagged_cost
        ELSE \A i \in DOMAIN first.updated_df : first.updated_df[i].Tagged # "No"

C2_Witness ==
    /\ ipc = "twice" /\ second.ran
    /\ second.updated_df # first.updated_df

YesIndex(t) == {i \in DOMAIN t : t[i].Tagged = "Yes"}
NthYes(t, n) ==
    CHOOSE i \in YesIndex(t) : Cardinality({j \in YesIndex(t) : j <= i}) = n
AllTagsPresent(r) ==
    /\ r.Department # NULL /\ r.Project # NULL
    /\ r.Owner # NULL /\ r.CostCenter # NULL
\* C3: the updated table is the original rows flagged "Yes", in their order
\* and unchanged, followed by the edited rows in the order the editor gave
\* them, each flagged "Yes" exactly when its four tag fields are all present
\* and "No" otherwise.
C3_MergedTable ==
    [][(pc = "recompute" /\ pc' = "done") =>
         LET k == Cardinality(YesIndex(df)) IN
         /\ Len(updated_df') = k + Len(edited_df)
         /\ \A n \in 1..k : updated_df'[n] = df[NthYes(df, n)]
         /\ \A i \in DOMAIN edited_df :
              LET r == updated_df'[k + i] IN
              /\ r.Tagged = (IF AllTagsPresent(edited_df[i]) THEN "Yes" ELSE "No")
              /\ r = [edited_df[i] EXCEPT !.Tagged = r.Tagged]]_vars

C3_Witness ==
    /\ pc = "done" /\ edits > 0
    /\ \E i \in DOMAIN updated_df : \E j \in DOMAIN updated_df :
         /\ i < j /\ j > Cardinality(YesIndex(df))
         /\ updated_df[i].Tagged = "Yes" /\ updated_df[j].Tagged = "No"
    /\ \E j \in DOMAIN updated_df :
         /\ j > Cardinality(YesIndex(df)) /\ updated_df[j].Tagged = "Yes"

\* C4: the remediated export carries the updated table: every edited row in
\* it has the flag derived from its tag fields.
C4_ExportIsUpdated ==
    (pc = "done" /\ "export" \in ran) => combined_df = updated_df

\* C5: a percentage whose denominator is zero is 0.
C5_ZeroDenominatorGivesZero ==
    /\ ("counts" \in ran /\ Len(df) = 0) => percent_untagged = Number(0)
    /\ ("costs" \in ran /\ total_cost = 0) => percent_untagged_cost = Number(0)
    /\ ("recompute" \in ran /\ SumCost(updated_df) = 0) =>
           updated_percent_untagged_cost = Number(0)

\* C6 as stated: the counts by tag status sum to the number of rows, also
\* when flags are null or neither "Yes" nor "No".
C6_CountsSumToRows == "counts" \in ran => SumValues(tagged_counts) = Len(df)

\* C6 amended: the counts sum to the number of rows whose flag is not null;
\* a flag that is neither "Yes" nor "No" is counted under its own key.
C6_CountsSumToFlaggedRows ==
    "counts" \in ran =>
        /\ SumValues(tagged_counts) =
               Cardinality({i \in DOMAIN df : df[i].Tagged # NULL})
        /\ \A i \in DOMAIN df :
               df[i].Tagged # NULL => df[i].Tagged \in DOMAIN tagged_counts

C6_Witness ==
    /\ "counts" \in ran
    /\ "Maybe" \in DOMAIN tagged_counts
    /\ \E i \in DOMAIN df : df[i].Tagged = NULL
    /\ SumValues(tagged_counts) < Len(df)

\* C7 as stated: with both keys present, the cost under "Yes" plus the cost
\* under "No" is the total cost.
C7_YesPlusNoIsTotal ==
    ("costs" \in ran /\ {"Yes", "No"} \subseteq DOMAIN cost_by_tag) =>
        cost_by_tag["Yes"] + cost_by_tag["No"] = total_cost

OtherFlag(r) == r.Tagged \notin {"Yes", "No"}

\* C7 amended: with both keys present, "Yes" plus "No" is the total cost less
\* the cost of the rows whose flag is null or neither "Yes" nor "No"; it is
\* the total when every flag is "Yes" or "No".
C7_YesPlusNoIsFlaggedTotal ==
    ("costs" \in ran /\ {"Yes", "No"} \subseteq DOMAIN cost_by_tag) =>
        /\ cost_by_tag["Yes"] + cost_by_tag["No"]
               = total_cost - SumCost(SelectSeq(df, OtherFlag))
        /\ total_cost = SumValues([i \in DOMAIN df |-> df[i].MonthlyCostUSD])

C7_Witness ==
    /\ "costs" \in ran /\ {"Yes", "No"} \subseteq DOMAIN cost_by_tag
    /\ cost_by_tag["Yes"] > 0 /\ cost_by_tag["No"] > 0
    /\ cost_by_tag["Yes"] + cost_by_tag["No"] < total_cost

KeySum(t, col, k) ==
    LET HasKey(r) == r[col] = k IN SumCost(SelectSeq(t, HasKey))
IsArgMax(t, col, k) ==
    LET best == KeySum(t, col, k) IN
    /\ \E i \in DOMAIN t : t[i][col] = k
    /\ k # NULL
    /\ \A i \in DOMAIN t : t[i][col] # NULL => KeySum(t, col, t[i][col]) <= best

\* C9 as stated: each arg-max is "N/A" exactly when no row is left after
\* filtering, and otherwise a key with the highest summed cost.
C9_ArgMaxOrSentinel ==
    "argmax" \in ran =>
        /\ dept_most_untagged_cost = "N/A" <=> UntaggedRows(df) = <<>>
        /\ dept_most_untagged_cost # "N/A" =>
               IsArgMax(UntaggedRows(df), "Department", dept_most_untagged_cost)
        /\ project_most_cost = "N/A" <=> df = <<>>
        /\ project_most_cost # "N/A" => IsArgMax(df, "Project", project_most_cost)

HasKeyIn(t, col) == \E i \in DOMAIN t : t[i][col] # NULL

\* C9 amended: each arg-max is "N/A" exactly when no row left after filtering
\* has a key (no row, or every such row has a null department / project), and
\* otherwise a key with the highest summed cost among the rows that have one.
C9_ArgMaxOrSentinelOnKeys ==
    "argmax" \in ran =>
        /\ dept_most_untagged_cost = "N/A" <=> ~HasKeyIn(UntaggedRows(df), "Department")
        /\ dept_most_untagged_cost # "N/A" =>
               IsArgMax(UntaggedRows(df), "Department", dept_most_untagged_cost)
        /\ project_most_cost = "N/A" <=> ~HasKeyIn(df, "Project")
        /\ project_most_cost # "N/A" => IsArgMax(df, "Project", project_most_cost)

C9_Witness ==
    /\ "argmax" \in ran
    /\ dept_most_untagged_cost = "Ops"
    /\ \E i \in DOMAIN df : df[i].Tagged = "No" /\ df[i].Department = "Eng"

ScoresMatch(t) ==
    \A i \in DOMAIN t :
        t[i].TagCompletenessScore =
            Cardinality({f \in Range(tag_fields) : t[i][f] # NULL})

\* C10: in the enriched table and in the merged table after the edits, the
\* TagCompletenessScore of every row is the number of its tag fields that
\* are present.
C10_ScoreIsPresentCount ==
    /\ "enrich" \in ran => ScoresMatch(df)
    /\ "recompute" \in ran => ScoresMatch(updated_df)
    /\ "export" \in ran => ScoresMatch(combined_df)

\* C8: loading the file whose lines are each wrapped in one pair of double
\* quotes gives the table, header and rows, that loading the well-formed
\* file with the same content gives.
C8_RepairEqualsDirect ==
    (which = "plain" /\ lpc = "loaded") =>
        /\ parsed.columns = loaded.columns
        /\ parsed.data = loaded.data

====
